---- MODULE Spec2Model ----
(***************************************************************************)
(* Model of the LinuxUPC host-computer assistant:                          *)
(*   - the four transports of src/communication (UART, RS485, CAN, I2C),   *)
(*     as pure operators over a transport record, each returning the new   *)
(*     record, the calls made on the underlying library, the exception     *)
(*     raised and the value returned;                                      *)
(*   - the session of src/main_app.py: MainWindow (presentation thread),   *)
(*     CommunicationWorker (receiver thread) and the queued signals        *)
(*     between them.                                                       *)
(* Three specifications: TSpec drives one transport object through any     *)
(* sequence of calls; Spec / FairSpec run the session; FrameSpec runs the  *)
(* session in detail (frames told apart, send handlers observed).          *)
(***************************************************************************)
EXTENDS Integers, Sequences, FiniteSets, TLC

VARIABLES
    \* ---- transport-level specification (TSpec)
    t,              \* the transport object under test
    hist,           \* the records of the last two calls made on it
    opens,          \* handles acquired from the library so far
    closes,         \* handles given back to the library so far
    nOps,           \* calls made so far
    \* ---- session specification (Spec, FairSpec)
    comm_instance,  \* MainWindow.comm_instance: 0 is None, else a transport id
    comm_worker,    \* MainWindow.comm_worker: 0 is None, else a worker id
    worker_thread,  \* MainWindow.worker_thread: 0 is None, else a thread id
    tr,             \* transport objects constructed so far, by id
    wk,             \* workers and their threads, by id
    queue,          \* signals posted to the presentation thread, in order
    pc,             \* where the presentation thread is
    ui,             \* text of the connect button: "connected" / "disconnected"
    obs             \* observations of the run (history only)

tvars == <<t, hist, opens, closes, nOps>>
svars == <<comm_instance, comm_worker, worker_thread, tr, wk, queue, pc, ui,
           obs>>
vars == <<t, hist, opens, closes, nOps, comm_instance, comm_worker,
          worker_thread, tr, wk, queue, pc, ui, obs>>

----------------------------------------------------------------------------
\* Bounds of the model.

MaxOps == 4         \* calls on the transport under test
MaxConn == 2        \* transports constructed in one session run
MaxQueue == 1       \* signals waiting for the presentation thread
OneConn == 1        \* transports constructed in a run that tells frames apart
MaxFrames == 2      \* signals waiting in such a run

Kinds == {"UART", "RS485", "CAN", "I2C"}
Serial == {"UART", "RS485"}

\* Python values: None, a str (its code points), a list of ints, bytes.
None == [tag |-> "None", s |-> <<>>]
Str(s) == [tag |-> "str", s |-> s]
List(s) == [tag |-> "list", s |-> s]
Bytes(s) == [tag |-> "bytes", s |-> s]

\* Payloads handed to send_data: "", "P\n", " P\n", "\u00e9\n", [1, 2], b"P".
Payloads == {Str(<<>>), Str(<<80, 10>>), Str(<<32, 80, 10>>),
             Str(<<233, 10>>), List(<<1, 2>>), Bytes(<<80>>)}

\* I2C: the device addresses a transport is constructed with, the register
\* arguments of send_data / receive_data (NoReg is None), the num_bytes of
\* receive_data.
DefaultAddr == 66
Addresses == {DefaultAddr, 200}
NoReg == -1
Registers(kind) == IF kind = "I2C" THEN {NoReg, 16} ELSE {NoReg}
Counts(kind) == IF kind = "I2C" THEN {1, 2} ELSE {0}

WriteOutcomes == {"ok", "timeout", "fault"}
OpenOutcomes == [open : BOOLEAN, probe : BOOLEAN]

----------------------------------------------------------------------------
\* The transports.  h is serial_conn (UART, RS485) or bus (CAN, I2C):
\* "None" or an open handle; connected is I2CCommunication._connected; addr
\* is I2CCommunication.device_address (0 for the other kinds).

\* A call on the underlying library: its name, whether it succeeded, the
\* bytes handed to it or handed back by it; for the data calls of smbus also
\* the device address, the register (NoReg if none) and the length.
Call(f, ok, arg) == [f |-> f, ok |-> ok, arg |-> arg]
I2CCall(f, ok, addr, reg, n, arg) ==
    [f |-> f, ok |-> ok, arg |-> arg, addr |-> addr, reg |-> reg, n |-> n]
Ret(tt, calls, exc, val) == [t |-> tt, calls |-> calls, exc |-> exc, val |-> val]

\* __init__: the parameters are stored as given, nothing is checked and no
\* library call is made.
Construct(kind, addr) ==
    Ret([kind |-> kind, addr |-> IF kind = "I2C" THEN addr ELSE 0,
         h |-> "None", connected |-> FALSE], <<>>, "none", None)

NewTransport(kind) == Construct(kind, DefaultAddr).t

OpenFn(kind) == IF kind \in Serial THEN "Serial"
                ELSE IF kind = "CAN" THEN "Bus" ELSE "SMBus"
CloseFn(kind) == IF kind = "CAN" THEN "shutdown" ELSE "close"

\* is_connected()
IsConnected_BusOnly(tt) == tt.h # "None"
IsConnected(tt) ==
    IF tt.kind = "I2C" THEN tt.connected ELSE tt.h # "None"

HandleHeld(tt) == tt.h # "None"

\* str.encode('utf-8') of a sequence of code points below 2048.
RECURSIVE UTF8(_)
UTF8(s) ==
    IF s = <<>> THEN <<>>
    ELSE LET c == Head(s)
         IN  (IF c < 128 THEN <<c>>
              ELSE <<192 + (c \div 64), 128 + (c % 64)>>) \o UTF8(Tail(s))

\* bytes.decode('utf-8', errors='ignore'), for bytes below 224: a byte that
\* starts no valid one- or two-byte sequence is dropped.
RECURSIVE Decode(_)
Decode(b) ==
    IF b = <<>> THEN <<>>
    ELSE LET x == Head(b)
         IN  IF x < 128 THEN <<x>> \o Decode(Tail(b))
             ELSE IF /\ x >= 194 /\ x < 224 /\ Len(b) >= 2
                     /\ b[2] >= 128 /\ b[2] < 192
                  THEN <<(x - 192) * 64 + (b[2] - 128)>> \o Decode(Tail(Tail(b)))
                  ELSE Decode(Tail(b))

\* str.strip(): the ASCII whitespace of the model's alphabet.
Whitespace == {9, 10, 11, 12, 13, 32}
RECURSIVE LStrip(_)
LStrip(s) == IF s # <<>> /\ Head(s) \in Whitespace THEN LStrip(Tail(s)) ELSE s
RECURSIVE RStrip(_)
RStrip(s) ==
    IF s # <<>> /\ s[Len(s)] \in Whitespace
    THEN RStrip(SubSeq(s, 1, Len(s) - 1)) ELSE s
Strip(s) == RStrip(LStrip(s))

\* `if data:` of CommunicationWorker.run
Truthy_NotNone(v) == v.tag # "None"
Truthy(v) == v.tag # "None" /\ v.s # <<>>

\* connect(), past its early return: the try block.  o.open is whether the
\* library opens the port or bus, o.probe whether the I2C device answers;
\* the probe of an address that is no 7-bit address fails.
Open(tt, o) ==
    IF tt.kind \in Serial \/ tt.kind = "CAN" THEN
        IF o.open
        THEN Ret([tt EXCEPT !.h = "open"],
                 <<Call(OpenFn(tt.kind), TRUE, <<>>)>>, "none", None)
        ELSE Ret(tt, <<Call(OpenFn(tt.kind), FALSE, <<>>)>>,
                 "ConnectionError", None)
    ELSE
        IF ~o.open
        THEN Ret([tt EXCEPT !.connected = FALSE],
                 <<Call("SMBus", FALSE, <<>>)>>, "ConnectionError", None)
        ELSE IF ~o.probe \/ tt.addr \notin 0..127
        THEN Ret([tt EXCEPT !.h = "open", !.connected = FALSE],
                 <<Call("SMBus", TRUE, <<>>), Call("read_byte", FALSE, <<>>)>>,
                 "ConnectionError", None)
        ELSE Ret([tt EXCEPT !.h = "open", !.connected = TRUE],
                 <<Call("SMBus", TRUE, <<>>), Call("read_byte", TRUE, <<>>)>>,
                 "none", None)

\* connect()
Connect_NoEarlyReturn(tt, o) == Open(tt, o)
Connect(tt, o) ==
    IF tt.h # "None" THEN Ret(tt, <<>>, "none", None)   \* already connected
    ELSE Open(tt, o)

\* disconnect()
Disconnect_KeepFlag(tt) ==
    IF tt.h # "None"
    THEN Ret([tt EXCEPT !.h = "None"],
             <<Call(CloseFn(tt.kind), TRUE, <<>>)>>, "none", None)
    ELSE Ret(tt, <<>>, "none", None)

Disconnect(tt) ==
    IF tt.kind = "I2C" THEN
        IF tt.h # "None"
        THEN Ret([tt EXCEPT !.h = "None", !.connected = FALSE],
                 <<Call("close", TRUE, <<>>)>>, "none", None)
        ELSE Ret([tt EXCEPT !.connected = FALSE], <<>>, "none", None)
    ELSE
        IF tt.h # "None"
        THEN Ret([tt EXCEPT !.h = "None"],
                 <<Call(CloseFn(tt.kind), TRUE, <<>>)>>, "none", None)
        ELSE Ret(tt, <<>>, "none", None)

\* I2C send_data(data, register); o is what the library's write does.
I2CSend_NoRegister(tt, data, register, o) ==
    IF ~IsConnected(tt) THEN Ret(tt, <<>>, "ConnectionError", None)
    ELSE IF data.tag \notin {"str", "list"} THEN Ret(tt, <<>>, "TypeError", None)
    ELSE IF data.s = <<>> THEN Ret(tt, <<>>, "none", None)
    ELSE Ret(tt, <<I2CCall("write_byte", o = "ok", tt.addr, NoReg, 1,
                           <<Head(data.s)>>)>>,
             IF o = "ok" THEN "none" ELSE "IOError", None)
I2CSend(tt, data, register, o) ==
    IF ~IsConnected(tt) THEN Ret(tt, <<>>, "ConnectionError", None)
    \* [ord(c) for c in data] of a str, the list itself, else TypeError
    ELSE IF data.tag \notin {"str", "list"} THEN Ret(tt, <<>>, "TypeError", None)
    ELSE IF register # NoReg THEN
        Ret(tt, <<I2CCall("write_i2c_block_data", o = "ok", tt.addr, register,
                          Len(data.s), data.s)>>,
            IF o = "ok" THEN "none" ELSE "IOError", None)
    \* register is None: only the first element, if there is one
    ELSE IF data.s = <<>> THEN Ret(tt, <<>>, "none", None)
    ELSE Ret(tt, <<I2CCall("write_byte", o = "ok", tt.addr, NoReg, 1,
                           <<Head(data.s)>>)>>,
             IF o = "ok" THEN "none" ELSE "IOError", None)

\* send_data(data), called with its default arguments; o is what the
\* library's write does.  data.encode of a value that is no str raises
\* AttributeError before any library call.
Send(tt, data, o) ==
    IF tt.kind = "I2C" THEN I2CSend(tt, data, NoReg, o)
    ELSE IF ~IsConnected(tt) THEN Ret(tt, <<>>, "ConnectionError", None)
    ELSE IF data.tag # "str" THEN Ret(tt, <<>>, "AttributeError", None)
    ELSE IF tt.kind = "UART" THEN
        Ret(tt, <<Call("write", o = "ok", UTF8(data.s))>>,
            IF o = "ok" THEN "none"
            ELSE IF o = "timeout" THEN "TimeoutError" ELSE "SerialException",
            None)
    ELSE IF tt.kind = "RS485" THEN
        IF o = "ok"
        THEN Ret(tt, <<Call("write", TRUE, UTF8(data.s)),
                       Call("flush", TRUE, <<>>)>>, "none", None)
        ELSE Ret(tt, <<Call("write", FALSE, UTF8(data.s))>>,
                 IF o = "timeout" THEN "TimeoutError" ELSE "SerialException",
                 None)
    ELSE
        Ret(tt, <<Call("send", o = "ok", UTF8(data.s))>>,
            IF o = "ok" THEN "none" ELSE "IOError", None)

\* send_data with the register argument the I2C variant takes
SendTo(tt, data, register, o) ==
    IF tt.kind = "I2C" THEN I2CSend(tt, data, register, o) ELSE Send(tt, data, o)

\* I2C receive_data(num_bytes, register); o is what the library's reads do,
\* o.raw the num_bytes bytes they hand back.
I2CReceive(tt, num_bytes, register, o) ==
    IF ~IsConnected(tt) THEN Ret(tt, <<>>, "ConnectionError", None)
    ELSE IF register # NoReg THEN
        IF o.res = "fault"
        THEN Ret(tt, <<I2CCall("read_i2c_block_data", FALSE, tt.addr, register,
                               num_bytes, <<>>)>>, "IOError", None)
        ELSE Ret(tt, <<I2CCall("read_i2c_block_data", TRUE, tt.addr, register,
                               num_bytes, o.raw)>>, "none", List(o.raw))
    ELSE
        IF o.res = "fault"
        THEN Ret(tt, <<I2CCall("read_byte", FALSE, tt.addr, NoReg, 1, <<>>)>>,
                 "IOError", None)
        ELSE Ret(tt, [i \in 1..num_bytes |->
                        I2CCall("read_byte", TRUE, tt.addr, NoReg, 1,
                                <<o.raw[i]>>)],
                 "none", List(o.raw))

\* receive_data(), called with its default arguments; o is what the
\* library's read does.
Receive(tt, o) ==
    IF tt.kind = "I2C" THEN I2CReceive(tt, 1, NoReg, o)
    ELSE IF ~IsConnected(tt) THEN Ret(tt, <<>>, "ConnectionError", None)
    ELSE IF tt.kind \in Serial THEN
        IF o.res = "fault"
        THEN Ret(tt, <<Call("readline", FALSE, <<>>)>>, "SerialException", None)
        ELSE Ret(tt, <<Call("readline", TRUE, o.raw)>>, "none",
                 Str(Strip(Decode(o.raw))))
    ELSE
        IF o.res = "fault"
        THEN Ret(tt, <<Call("recv", FALSE, <<>>)>>, "CanError", None)
        ELSE IF o.res = "none"
        THEN Ret(tt, <<Call("recv", TRUE, <<>>)>>, "none", None)
        ELSE Ret(tt, <<Call("recv", TRUE, o.raw)>>, "none", Str(Decode(o.raw)))

\* receive_data with the arguments the I2C variant takes
ReceiveFrom(tt, num_bytes, register, o) ==
    IF tt.kind = "I2C" THEN I2CReceive(tt, num_bytes, register, o)
    ELSE Receive(tt, o)

\* What the library's read can do for a transport of this kind: a serial
\* readline hands back a line or, on timeout, no bytes; a CAN recv a frame or,
\* on timeout, None; an I2C read_byte always one byte; each may fail.
ReadOutcomes(kind) ==
    {[res |-> "fault", raw |-> <<>>]} \cup
    (IF kind \in Serial
     THEN {[res |-> "data", raw |-> r] : r \in {<<>>, <<80, 10>>}}
     ELSE IF kind = "CAN"
     THEN {[res |-> "none", raw |-> <<>>], [res |-> "data", raw |-> <<80>>]}
     ELSE {[res |-> "data", raw |-> <<7>>]})

NoRead == [res |-> "unread", raw |-> <<>>]

\* What the n single reads or the block read of n bytes of an I2C
\* receive_data can do: hand back bytes 7, 8, ... or fail.
I2CReadOutcomes(n) ==
    {[res |-> "fault", raw |-> <<>>],
     [res |-> "data", raw |-> [i \in 1..n |-> 6 + i]]}

\* Serial.readline() on the bytes buf waiting in the port: up to and
\* including the first newline, or, the timeout over, all of them.
RECURSIVE ReadLine(_)
ReadLine(buf) ==
    IF buf = <<>> THEN <<>>
    ELSE IF Head(buf) = 10 THEN <<10>>
    ELSE <<Head(buf)>> \o ReadLine(Tail(buf))

\* The peer of the tests: what the library's read hands back when the peer
\* returns what the calls `written` have just sent it: a serial loopback
\* the line written, a CAN loopback the frame, an I2C stub the first n bytes
\* of the block written to the register read, or n times the byte written.
EchoOutcomes(kind, written, n, register) ==
    IF written = <<>> \/ ~written[1].ok THEN {}
    ELSE IF kind \in Serial
    THEN {[res |-> "data", raw |-> ReadLine(written[1].arg)]}
    ELSE IF kind = "CAN"
    THEN {[res |-> "data", raw |-> written[1].arg]}
    ELSE IF written[1].reg # NoReg
    THEN IF register = written[1].reg /\ n <= written[1].n
         THEN {[res |-> "data", raw |-> SubSeq(written[1].arg, 1, n)]}
         ELSE {}
    ELSE IF register = NoReg
    THEN {[res |-> "data", raw |-> [i \in 1..n |-> written[1].arg[1]]]}
    ELSE {}

\* The same with a second frame, to tell two frames of one run apart.
TwoFrameOutcomes(kind) ==
    ReadOutcomes(kind) \cup
    {[res |-> "data",
      raw |-> IF kind \in Serial THEN <<81, 10>>
              ELSE IF kind = "CAN" THEN <<81>> ELSE <<8>>]}

\* The library's read timed out with no data: no bytes from readline, None
\* from recv.
TimedOut(o) == o.res = "none" \/ (o.res = "data" /\ o.raw = <<>>)

\* str(data) of a value handed back by receive_data: a str is itself, a list
\* of ints its repr, "[7]" or "[7, 8]".
RECURSIVE Digits(_)
Digits(n) == IF n < 10 THEN <<48 + n>> ELSE Digits(n \div 10) \o <<48 + (n % 10)>>
RECURSIVE Items(_)
Items(l) ==
    IF l = <<>> THEN <<>>
    ELSE Digits(Head(l))
         \o (IF Tail(l) = <<>> THEN <<>> ELSE <<44, 32>> \o Items(Tail(l)))
StrOf(v) ==
    IF v.tag = "str" THEN v
    ELSE IF v.tag = "list" THEN Str(<<91>> \o Items(v.s) \o <<93>>)
    ELSE Str(<<78, 111, 110, 101>>)

----------------------------------------------------------------------------
\* TSpec: one transport object, any sequence of calls on it.

RECURSIVE Count(_, _)
Count(calls, f) ==
    IF calls = <<>> THEN 0
    ELSE (IF Head(calls).f = f /\ Head(calls).ok THEN 1 ELSE 0)
         + Count(Tail(calls), f)

\* The record of one call: the object before it, what the caller saw, the
\* calls made on the library, and the life of the object before the call:
\* "new", "connect_ok", "connect_failed" or "disconnected" by its last
\* connect/disconnect.
\* a is the arguments of the call and what the library was drawn to do:
\* [data, reg, n, wo, ro].
OpRec(op, pre, was, a, r) ==
    [op |-> op, pre |-> pre, was |-> was, exc |-> r.exc, calls |-> r.calls,
     val |-> r.val, data |-> a.data, reg |-> a.reg, n |-> a.n, wo |-> a.wo,
     ro |-> a.ro]
NoArgs == [data |-> None, reg |-> NoReg, n |-> 0, wo |-> "none", ro |-> NoRead]

Last == hist[Len(hist)]
Life ==
    IF \A i \in 1..Len(hist) : hist[i].op \notin {"connect", "disconnect"}
    THEN IF hist = <<>> THEN "new" ELSE hist[1].was
    ELSE LET i == CHOOSE j \in 1..Len(hist) :
                     /\ hist[j].op \in {"connect", "disconnect"}
                     /\ \A k \in (j+1)..Len(hist) :
                            hist[k].op \notin {"connect", "disconnect"}
         IN  IF hist[i].op = "disconnect" THEN "disconnected"
             ELSE IF hist[i].exc = "none" THEN "connect_ok"
             ELSE "connect_failed"

Record(op, a, r) ==
    /\ nOps < MaxOps
    /\ t' = r.t
    /\ hist' = (IF Len(hist) < 2 THEN hist ELSE Tail(hist))
               \o <<OpRec(op, t, Life, a, r)>>
    /\ opens' = opens + Count(r.calls, OpenFn(t.kind))
    /\ closes' = closes + Count(r.calls, CloseFn(t.kind))
    /\ nOps' = nOps + 1
    /\ UNCHANGED svars

Idle == [at |-> "idle", ret |-> "idle", by |-> "none", k |-> 0]
NoLast == [op |-> "none", k |-> 0, exc |-> "none", log |-> "none"]
NoObs == [stopped |-> {}, errs |-> <<>>, pending |-> <<>>, last |-> NoLast]

SessionInit ==
    /\ comm_instance = 0 /\ comm_worker = 0 /\ worker_thread = 0
    /\ tr = <<>> /\ wk = <<>> /\ queue = <<>>
    /\ pc = Idle /\ ui = "disconnected"
    /\ obs = NoObs

\* The object as its constructor leaves it, the constructor's call the first
\* record.
TInit ==
    /\ \E kind \in Kinds :
         \E addr \in (IF kind = "I2C" THEN Addresses ELSE {0}) :
           LET r == Construct(kind, addr)
           IN  /\ t = r.t
               /\ hist = <<OpRec("init", r.t, "new", NoArgs, r)>>
    /\ opens = 0 /\ closes = 0 /\ nOps = 0
    /\ SessionInit

TConnect == \E o \in OpenOutcomes : Record("connect", NoArgs, Connect(t, o))
TDisconnect == Record("disconnect", NoArgs, Disconnect(t))
TSend ==
    \E d \in Payloads, reg \in Registers(t.kind), o \in WriteOutcomes :
        Record("send", [NoArgs EXCEPT !.data = d, !.reg = reg, !.wo = o],
               SendTo(t, d, reg, o))
\* the library's read does what ReadOutcomes says or, straight after a send,
\* hands back what the peer echoes
TReceive ==
    \E n \in Counts(t.kind), reg \in Registers(t.kind) :
      \E o \in (IF t.kind = "I2C" THEN I2CReadOutcomes(n)
                ELSE ReadOutcomes(t.kind))
               \cup (IF Last.op = "send" /\ Last.exc = "none"
                     THEN EchoOutcomes(t.kind, Last.calls, n, reg) ELSE {}) :
        Record("receive", [NoArgs EXCEPT !.reg = reg, !.n = n, !.ro = o],
               ReceiveFrom(t, n, reg, o))

TNext == TConnect \/ TDisconnect \/ TSend \/ TReceive

TSpec == TInit /\ [][TNext]_vars

----------------------------------------------------------------------------
\* The session: MainWindow on the presentation thread, one CommunicationWorker
\* per successful connect_device on its own QThread.  Transport k and worker k
\* are those made by the k-th connect_device that constructed a transport.
\*
\* A worker is [comm, flag, pc, quit, data, lib]: comm the transport it
\* reads, flag its _is_running, quit whether QThread.quit() has been called
\* on its thread, data the local `data` of run() during the iteration that
\* assigned it, lib what the library's read did in that iteration, pc:
\*   "none"     no worker (the connect failed)
\*   "start"    thread started, run() not yet entered
\*   "check"    at `while self._is_running`
\*   "recv"     inside self.comm.receive_data()
\*   "sleep"    in QThread.msleep(50)
\*   "exec"     run() has returned, the thread is in its event loop
\*   "finished" the thread has ended
\* obs keeps what the properties need of the past: stopped, the workers on
\* which stop() has returned; errs, the error_occurred signals each worker
\* has emitted; pending, the frames receive_data has handed back that the
\* data_received slot has not yet seen, oldest first; last, what the
\* presentation thread has just come out of: a failed connect_device (of
\* transport k), handle_comm_error, or a send handler (on transport k, 0 if it
\* called no send_data; exc what send_data raised, log what it logged).
\* A queued signal is [type, val]: "data" with str(data), or "error".
\* The presentation thread is pc = [at, ret, by, k]: at "idle" (in the event
\* loop), "box" (in connect_device's QMessageBox.critical, transport k
\* having failed), "wait" (in disconnect_device's worker_thread.wait(),
\* called by `by`, to go on at ret), "closed" (closeEvent accepted).

Ids == 1..Len(tr)
NoWorker == [comm |-> 0, flag |-> TRUE, pc |-> "none", quit |-> FALSE,
             data |-> None, lib |-> NoRead]
NewWorker(k) == [comm |-> k, flag |-> TRUE, pc |-> "start", quit |-> FALSE,
                 data |-> None, lib |-> NoRead]
Signal(type, val) == [type |-> type, val |-> val]

LoopLive(w) == wk[w].pc \in {"start", "check", "recv", "sleep"}

Note(op, k) == [obs EXCEPT !.last = [NoLast EXCEPT !.op = op, !.k = k]]

\* ---- CommunicationWorker, on the receiver thread

\* run(): self._is_running = True
RunEnter(w) ==
    /\ wk[w].pc = "start"
    /\ wk' = [wk EXCEPT ![w].flag = TRUE, ![w].pc = "check"]
    /\ UNCHANGED <<comm_instance, comm_worker, worker_thread, tr, queue, pc,
                   ui, obs>>

\* while self._is_running: ... data = self.comm.receive_data() is entered
LoopCheck(w) ==
    /\ wk[w].pc = "check"
    /\ wk' = [wk EXCEPT ![w].pc = IF wk[w].flag THEN "recv" ELSE "exec"]
    /\ UNCHANGED <<comm_instance, comm_worker, worker_thread, tr, queue, pc,
                   ui, obs>>

\* receive_data() returns or raises; `if data:` emit str(data); on an
\* exception emit error_occurred and break.  A frame arrives only while fewer
\* than room signals wait for the presentation thread.  With detail the
\* device sends two different frames, the signal carries str(data), and the
\* iteration's data and library outcome are kept for the properties; without
\* it there is one frame and a data signal is just a data signal.
RecvReturnIn(w, room, detail) ==
    /\ wk[w].pc = "recv"
    /\ \E o \in (IF detail THEN TwoFrameOutcomes(tr[wk[w].comm].kind)
                 ELSE ReadOutcomes(tr[wk[w].comm].kind)) :
         LET r == Receive(tr[wk[w].comm], o)
         IN  IF r.exc # "none"
             THEN /\ queue' = Append(queue, Signal("error", None))
                  /\ wk' = [wk EXCEPT ![w].pc = "exec",
                                      ![w].lib = IF detail THEN o ELSE @]
                  /\ obs' = [obs EXCEPT !.errs[w] = @ + 1]
             ELSE /\ r.val.s # <<>> => Len(queue) < room
                  /\ queue' = IF Truthy(r.val)
                              THEN Append(queue,
                                     Signal("data", IF detail THEN StrOf(r.val)
                                                    ELSE None))
                              ELSE queue
                  /\ wk' = [wk EXCEPT ![w].pc = "sleep",
                                      ![w].data = IF detail THEN r.val ELSE @,
                                      ![w].lib = IF detail THEN o ELSE @]
                  /\ obs' = [obs EXCEPT !.pending =
                                IF detail /\ r.val.s # <<>>
                                THEN Append(@, r.val) ELSE @]
    /\ UNCHANGED <<comm_instance, comm_worker, worker_thread, tr, pc, ui>>

RecvReturn(w) == RecvReturnIn(w, MaxQueue, FALSE)

\* QThread.msleep(50) is over; `data` is not read again before the next
\* iteration assigns it
Sleep(w) ==
    /\ wk[w].pc = "sleep"
    /\ wk' = [wk EXCEPT ![w].pc = "check", ![w].data = None, ![w].lib = NoRead]
    /\ UNCHANGED <<comm_instance, comm_worker, worker_thread, tr, queue, pc,
                   ui, obs>>

\* the thread's event loop ends once quit() has been called
ThreadExit(w) ==
    /\ wk[w].pc = "exec"
    /\ wk[w].quit
    /\ wk' = [wk EXCEPT ![w].pc = "finished"]
    /\ UNCHANGED <<comm_instance, comm_worker, worker_thread, tr, queue, pc,
                   ui, obs>>

WorkerStep(w) ==
    RunEnter(w) \/ LoopCheck(w) \/ RecvReturn(w) \/ Sleep(w) \/ ThreadExit(w)

\* the same worker in detail
WorkerStepTwo(w) ==
    \/ RunEnter(w) \/ LoopCheck(w) \/ RecvReturnIn(w, MaxFrames, TRUE)
    \/ Sleep(w) \/ ThreadExit(w)

\* ---- MainWindow, on the presentation thread

\* worker_thread.wait() returns
ThreadFinished_NoWait(w) == TRUE
ThreadFinished(w) == wk[w].pc = "finished"

\* disconnect_device() up to worker_thread.wait(): stop() and quit(); by is
\* the caller, ret where the presentation thread goes on afterwards
DisconnectBegin(ret, by) ==
    /\ wk' = [w \in DOMAIN wk |->
                [wk[w] EXCEPT !.flag = IF w = comm_worker THEN FALSE ELSE @,
                              !.quit = IF w = worker_thread THEN TRUE ELSE @]]
    /\ pc' = [at |-> "wait", ret |-> ret, by |-> by, k |-> pc.k]
    /\ obs' = [obs EXCEPT !.stopped = @ \cup (IF comm_worker = 0 THEN {}
                                              ELSE {comm_worker}),
                          !.last = NoLast]
    /\ UNCHANGED <<comm_instance, comm_worker, worker_thread, tr, ui>>

\* disconnect_device() from worker_thread.wait() on
WaitDone ==
    /\ pc.at = "wait"
    /\ IF worker_thread = 0 THEN TRUE ELSE ThreadFinished(worker_thread)
    /\ tr' = IF comm_instance = 0 THEN tr
             ELSE [tr EXCEPT ![comm_instance] = Disconnect(@).t]
    /\ comm_instance' = 0
    /\ ui' = "disconnected"
    /\ pc' = [at |-> pc.ret, ret |-> "idle", by |-> "none", k |-> pc.k]
    /\ obs' = Note(IF pc.by = "error" THEN "error_handled" ELSE "none", 0)
    /\ UNCHANGED <<comm_worker, worker_thread, wk, queue>>

\* connect_device(): po is whether the text fields parse, o what the
\* library does on connect(); at most maxc transports are constructed
ConnectDeviceIn(maxc) ==
    \E kind \in Kinds, po \in BOOLEAN, o \in OpenOutcomes :
      IF ~po
      THEN /\ pc' = [at |-> "box", ret |-> "idle", by |-> "none", k |-> 0]
           /\ obs' = Note("none", 0)
           /\ UNCHANGED <<comm_instance, comm_worker, worker_thread, tr, wk,
                          queue, ui>>
      ELSE /\ Len(tr) < maxc
           /\ LET k == Len(tr) + 1
                  r == Connect(NewTransport(kind), o)
              IN  /\ tr' = Append(tr, r.t)
                  /\ comm_instance' = k
                  /\ obs' = [obs EXCEPT !.errs = Append(@, 0),
                                        !.last = NoLast]
                  /\ IF r.exc = "none"
                     THEN /\ wk' = Append(wk, NewWorker(k))
                          /\ worker_thread' = k
                          /\ comm_worker' = k
                          /\ ui' = "connected"
                          /\ UNCHANGED pc
                     ELSE /\ wk' = Append(wk, NoWorker)
                          /\ pc' = [at |-> "box", ret |-> "idle",
                                    by |-> "none", k |-> k]
                          /\ UNCHANGED <<worker_thread, comm_worker, ui>>
           /\ UNCHANGED queue

ConnectDevice == ConnectDeviceIn(MaxConn)

\* connect_device()'s except block after the message box: comm_instance = None
DismissBox ==
    /\ pc.at = "box"
    /\ comm_instance' = 0
    /\ pc' = Idle
    /\ obs' = Note("connect_failed", pc.k)
    /\ UNCHANGED <<comm_worker, worker_thread, tr, wk, queue, ui>>

\* toggle_connection(), the connect button
ToggleConnection_AlwaysConnect ==
    /\ pc.at = "idle"
    /\ ConnectDevice
ToggleConnectionIn(maxc) ==
    /\ pc.at = "idle"
    /\ IF comm_instance # 0 /\ IsConnected(tr[comm_instance])
       THEN DisconnectBegin("idle", "toggle") /\ UNCHANGED queue
       ELSE ConnectDeviceIn(maxc)
ToggleConnection == ToggleConnectionIn(MaxConn)

\* send_pid_data() / send_custom_data(): the transport's send_data is called
\* only on a connected comm_instance, its exception is logged; the transport
\* object comes back as send_data leaves it
SendDataIn_DropOnError(detail) ==
    /\ pc.at = "idle"
    /\ \E o \in WriteOutcomes :
         IF comm_instance = 0 \/ ~IsConnected(tr[comm_instance])
         THEN /\ tr' = tr
              /\ comm_instance' = comm_instance
              /\ obs' = Note(IF detail THEN "send" ELSE "none", 0)
         ELSE LET r == Send(tr[comm_instance], Str(<<80, 10>>), o)
              IN  /\ tr' = [tr EXCEPT ![comm_instance] = r.t]
                  /\ comm_instance' = IF r.exc = "none" THEN comm_instance
                                      ELSE 0
                  /\ obs' = IF detail
                            THEN [obs EXCEPT !.last =
                                    [op |-> "send", k |-> comm_instance,
                                     exc |-> r.exc,
                                     log |-> IF r.exc = "none" THEN "Sent"
                                             ELSE "Error sending"]]
                            ELSE Note("none", 0)
    /\ UNCHANGED <<comm_worker, worker_thread, wk, queue, pc, ui>>
SendDataIn_SilentError(detail) ==
    /\ pc.at = "idle"
    /\ \E o \in WriteOutcomes :
         IF comm_instance = 0 \/ ~IsConnected(tr[comm_instance])
         THEN /\ tr' = tr
              /\ obs' = IF detail
                        THEN [obs EXCEPT !.last =
                                [op |-> "send", k |-> 0, exc |-> "none",
                                 log |-> "Not connected"]]
                        ELSE Note("none", 0)
         ELSE LET r == Send(tr[comm_instance], Str(<<80, 10>>), o)
              IN  /\ tr' = [tr EXCEPT ![comm_instance] = r.t]
                  /\ obs' = IF detail
                            THEN [obs EXCEPT !.last =
                                    [op |-> "send", k |-> comm_instance,
                                     exc |-> r.exc, log |-> "Sent"]]
                            ELSE Note("none", 0)
    /\ UNCHANGED <<comm_instance, comm_worker, worker_thread, wk, queue, pc,
                   ui>>
\* with detail, what the handler did is kept in obs.last
SendDataIn(detail) ==
    /\ pc.at = "idle"
    /\ \E o \in WriteOutcomes :
         IF comm_instance = 0 \/ ~IsConnected(tr[comm_instance])
         THEN /\ tr' = tr
              /\ obs' = IF detail
                        THEN [obs EXCEPT !.last =
                                [op |-> "send", k |-> 0, exc |-> "none",
                                 log |-> "Not connected"]]
                        ELSE Note("none", 0)
         ELSE LET r == Send(tr[comm_instance], Str(<<80, 10>>), o)
              IN  /\ tr' = [tr EXCEPT ![comm_instance] = r.t]
                  /\ obs' = IF detail
                            THEN [obs EXCEPT !.last =
                                    [op |-> "send", k |-> comm_instance,
                                     exc |-> r.exc,
                                     log |-> IF r.exc = "none" THEN "Sent"
                                             ELSE "Error sending"]]
                            ELSE Note("none", 0)
    /\ UNCHANGED <<comm_instance, comm_worker, worker_thread, wk, queue, pc,
                   ui>>
SendData == SendDataIn(FALSE)

\* handle_comm_error(): log, disconnect_device(), QMessageBox.warning.
\* Nothing follows the warning box, so the thread is taken to be back in the
\* event loop (or in the box it came from) once disconnect_device is done.
HandleCommError_LogOnly ==
    /\ obs' = Note("none", 0)
    /\ UNCHANGED <<comm_instance, comm_worker, worker_thread, tr, wk, pc, ui>>
HandleCommError ==
    DisconnectBegin(pc.at, "error")

\* a queued signal reaches its slot: data_received -> log, error_occurred ->
\* handle_comm_error; also inside connect_device's message box, whose nested
\* event loop delivers queued signals
Dispatch_NewestFirst ==
    /\ pc.at \in {"idle", "box"}
    /\ queue # <<>>
    /\ queue' = SubSeq(queue, 1, Len(queue) - 1)
    /\ IF queue[Len(queue)].type = "error"
       THEN HandleCommError
       ELSE /\ obs' = [obs EXCEPT !.pending = IF @ = <<>> THEN @ ELSE Tail(@)]
            /\ UNCHANGED <<comm_instance, comm_worker, worker_thread, tr, wk,
                           pc, ui>>
Dispatch ==
    /\ pc.at \in {"idle", "box"}
    /\ queue # <<>>
    /\ queue' = Tail(queue)
    /\ IF Head(queue).type = "error"
       THEN HandleCommError
       ELSE /\ obs' = [obs EXCEPT !.pending = IF @ = <<>> THEN @ ELSE Tail(@)]
            /\ UNCHANGED <<comm_instance, comm_worker, worker_thread, tr, wk,
                           pc, ui>>

\* closeEvent()
CloseEvent ==
    /\ pc.at = "idle"
    /\ DisconnectBegin("closed", "close")
    /\ UNCHANGED queue

TransportIdle ==
    /\ t = NewTransport("UART")
    /\ hist = <<>> /\ opens = 0 /\ closes = 0 /\ nOps = 0

Init == SessionInit /\ TransportIdle

Worker == \E w \in Ids : WorkerStep(w)

Next ==
    \/ (ToggleConnection /\ UNCHANGED tvars)
    \/ (SendData /\ UNCHANGED tvars)
    \/ (Dispatch /\ UNCHANGED tvars)
    \/ (DismissBox /\ UNCHANGED tvars)
    \/ (WaitDone /\ UNCHANGED tvars)
    \/ (CloseEvent /\ UNCHANGED tvars)
    \/ (Worker /\ UNCHANGED tvars)

Spec == Init /\ [][Next]_vars

\* The session in detail: frames told apart, what the receiver got and what
\* the send handlers did kept.
WorkerTwo == \E w \in Ids : WorkerStepTwo(w)

FrameNext ==
    \/ (ToggleConnectionIn(OneConn) /\ UNCHANGED tvars)
    \/ (SendDataIn(TRUE) /\ UNCHANGED tvars)
    \/ (Dispatch /\ UNCHANGED tvars)
    \/ (DismissBox /\ UNCHANGED tvars)
    \/ (WaitDone /\ UNCHANGED tvars)
    \/ (CloseEvent /\ UNCHANGED tvars)
    \/ (WorkerTwo /\ UNCHANGED tvars)

FrameSpec == Init /\ [][FrameNext]_vars

\* The receiver thread runs whenever it can, every receive call returns, and
\* the presentation thread's event loop delivers queued signals and goes on
\* after wait() once the thread has finished.
FairSpec ==
    /\ Spec
    /\ \A w \in 1..MaxConn : WF_vars(w \in Ids /\ WorkerStep(w) /\ UNCHANGED tvars)
    /\ WF_vars(Dispatch /\ UNCHANGED tvars)
    /\ WF_vars(WaitDone /\ UNCHANGED tvars)

----------------------------------------------------------------------------
\* Properties of the transports, stated of TSpec.

LibraryFailed(rec) == \E i \in 1..Len(rec.calls) : ~rec.calls[i].ok

\* C5: a connect() that fails raises ConnectionError and leaves the transport
\* Disconnected with no OS handle held; in every reachable state a transport
\* holds an OS handle only while is_connected() is true.
C5_HandleOnlyWhileConnected ==
    /\ HandleHeld(t) => IsConnected(t)
    /\ (hist # <<>> /\ Last.op = "connect" /\ LibraryFailed(Last)) =>
           /\ Last.exc = "ConnectionError"
           /\ ~IsConnected(t)
           /\ ~HandleHeld(t)

\* C7: send_data and receive_data called on a transport that is Disconnected
\* (never connected, after disconnect(), after a failed connect(), or with
\* is_connected() false for any other reason) raise ConnectionError, make no
\* call on the underlying library and leave the object as it was.
C7_DisconnectedIONoCall ==
    (/\ hist # <<>>
     /\ Last.op \in {"send", "receive"}
     /\ \/ Last.was \in {"new", "disconnected", "connect_failed"}
        \/ ~IsConnected(Last.pre))
    => /\ Last.exc = "ConnectionError"
       /\ Last.calls = <<>>
       /\ t = Last.pre

\* C7's case: a send on an I2C transport whose connect() failed at the probe,
\* so that the bus handle is there and the transport is not connected.
C7_Witness ==
    /\ hist # <<>>
    /\ Last.op = "send"
    /\ Last.was = "connect_failed"
    /\ HandleHeld(Last.pre)
    /\ Last.exc = "ConnectionError"

\* C8: two consecutive connect() calls with no disconnect() between them
\* acquire at most one handle from the library; the second call, on a
\* transport that is already Connected or whose first call returned normally,
\* makes no library call and changes no state.
C8_ConnectTwiceOneOpen ==
    (/\ Len(hist) = 2
     /\ hist[1].op = "connect"
     /\ hist[2].op = "connect")
    => /\ Count(hist[1].calls, OpenFn(t.kind))
            + Count(hist[2].calls, OpenFn(t.kind)) <= 1
       /\ (IsConnected(hist[2].pre) \/ hist[1].exc = "none") =>
              /\ hist[2].calls = <<>>
              /\ hist[2].exc = "none"
              /\ t = hist[2].pre

\* C8's case: a connect() that opened the handle, followed by another.
C8_Witness ==
    /\ Len(hist) = 2
    /\ hist[1].op = "connect"
    /\ hist[2].op = "connect"
    /\ Count(hist[1].calls, OpenFn(t.kind)) = 1
    /\ IsConnected(hist[2].pre)
    /\ opens = 1

\* C9: disconnect() never raises, whatever the state; after it
\* is_connected() is false, no handle is held, the call closed the handle
\* that was held (one close) or made no library call, and every handle
\* acquired so far has been closed exactly once.
C9_DisconnectIdempotent ==
    /\ closes <= opens
    /\ (hist # <<>> /\ Last.op = "disconnect") =>
           /\ Last.exc = "none"
           /\ ~IsConnected(t)
           /\ ~HandleHeld(t)
           /\ Last.calls = (IF HandleHeld(Last.pre)
                            THEN <<Call(CloseFn(t.kind), TRUE, <<>>)>>
                            ELSE <<>>)
           /\ opens = closes

\* C9's case: disconnect() twice in a row, the first on a transport holding
\* a handle after a failed connect (I2C probe) or a successful one.
C9_Witness ==
    /\ Len(hist) = 2
    /\ hist[1].op = "disconnect"
    /\ hist[2].op = "disconnect"
    /\ HandleHeld(hist[1].pre)
    /\ opens = 1 /\ closes = 1

----------------------------------------------------------------------------
\* Properties of the session, stated of Spec and FairSpec.

\* C1: while a receiver's loop has not terminated, the transport it reads
\* is connected and holds its handle: disconnect_device calls disconnect()
\* only after wait() has seen the receiver thread finish, so no receive call
\* is in flight or started on a released handle.
C1_ReceiverInsideTransport ==
    \A w \in Ids :
        LoopLive(w) => /\ IsConnected(tr[wk[w].comm])
                       /\ HandleHeld(tr[wk[w].comm])

\* C1's case: disconnect_device has called stop() and is waiting while the
\* receiver is still inside a receive call on the open transport.
C1_Witness ==
    /\ pc.at = "wait"
    /\ worker_thread # 0
    /\ wk[worker_thread].pc = "recv"
    /\ worker_thread \in obs.stopped
    /\ HandleHeld(tr[wk[worker_thread].comm])

\* C2: once stop() has been called on a started receiver its loop eventually
\* terminates, and disconnect_device, which waits for the receiver thread,
\* eventually gets past wait().
C2_StopTerminates ==
    /\ \A w \in 1..MaxConn :
           [](w \in obs.stopped => <>(w \in Ids /\ ~LoopLive(w)))
    /\ [](pc.at = "wait" => <>(pc.at # "wait"))

\* C3: once stop() has returned on a receiver, that receiver emits no
\* further data_received signal: no step of a stopped receiver appends a
\* data signal to the queue.  (A receiver with its flag cleared that is
\* inside receive_data is one that stop() found with the call in flight.)
EmitsData(w) ==
    /\ wk[w].pc = "recv"
    /\ wk'[w].pc = "sleep"
    /\ Len(queue') = Len(queue) + 1
    /\ queue'[Len(queue')].type = "data"
C3_NoEmitAfterStop ==
    [][\A w \in Ids : (w \in obs.stopped /\ ~wk[w].flag) => ~EmitsData(w)]_vars

\* C4: when connect_device has failed, the session has no active transport,
\* no running receiver, and the transport that was being set up holds no OS
\* handle.
C4_FailedConnectRollsBack ==
    obs.last.op = "connect_failed" =>
        /\ comm_instance = 0
        /\ \A w \in Ids : ~LoopLive(w)
        /\ obs.last.k # 0 => ~HandleHeld(tr[obs.last.k])

\* C6: a receiver whose receive call raised has emitted exactly one error
\* signal and makes no further receive call, and the session it belongs to
\* eventually is fully disconnected: disconnect() called on its transport,
\* comm_instance None, the button back to "disconnected".
Errored(w) == obs.errs[w] >= 1
\* some session whose receiver has raised is not yet torn down
ErrorPending ==
    \E w \in Ids : Errored(w) /\ (comm_instance = w \/ HandleHeld(tr[w]))
FullyDisconnected(w) ==
    /\ w \in Ids
    /\ comm_instance = 0
    /\ ui = "disconnected"
    /\ ~IsConnected(tr[w])
    /\ ~HandleHeld(tr[w])
C6_ReceiveErrorFailStop ==
    /\ [](\A w \in Ids : /\ obs.errs[w] <= 1
                         /\ Errored(w) => wk[w].pc \in {"exec", "finished"})
    /\ [](ErrorPending => <>(\A w \in Ids : Errored(w) => FullyDisconnected(w)))

\* C6's case: the receive error of a session has been handled, and the
\* session is fully disconnected.
C6_Witness ==
    \E w \in Ids :
        /\ obs.errs[w] = 1
        /\ wk[w].pc = "finished"
        /\ FullyDisconnected(w)
        /\ obs.last.op = "error_handled"
        /\ w = Len(tr)

\* C10: at most one transport is connected and at most one receiver's loop
\* is live, and a live receiver reads the transport that comm_instance
\* names.
C10_OneTransportOneReceiver ==
    /\ Cardinality({k \in Ids : IsConnected(tr[k])}) <= 1
    /\ Cardinality({w \in Ids : LoopLive(w)}) <= 1
    /\ \A w \in Ids : LoopLive(w) =>
           /\ comm_instance = wk[w].comm
           /\ comm_worker = w
           /\ worker_thread = w

\* C10's case: a second session is running after the first was torn down.
C10_Witness ==
    /\ Len(tr) = 2
    /\ wk[1].pc = "finished"
    /\ LoopLive(2)
    /\ wk[2].pc = "recv"
    /\ comm_instance = 2

\* C11: disconnect_device with nothing connected raises nothing and calls no
\* transport, and whenever disconnect_device returns the session holds no
\* transport and no receiver: comm_instance, comm_worker and worker_thread
\* are all None.
DisconnectReturns == pc.at = "wait" /\ pc'.at # "wait"
C11_DisconnectClearsReferences ==
    [][DisconnectReturns =>
          /\ comm_instance = 0 => tr' = tr
          /\ comm_instance' = 0
          /\ comm_worker' = 0
          /\ worker_thread' = 0]_vars

\* C12: a send handler whose send_data raises, and a connect_device that
\* fails, leave the connection as it was: the same comm_instance, connected
\* or not as before, the same receivers running, the transports that existed
\* untouched.  connect_device starts with no comm_instance and ends, failed,
\* with none.
ConnState ==
    [active |-> comm_instance,
     connected |-> comm_instance # 0 /\ IsConnected(tr[comm_instance]),
     running |-> {w \in Ids : LoopLive(w)},
     flags |-> [w \in Ids |-> wk[w].flag]]
SendRaised ==
    /\ obs'.last # obs.last
    /\ obs'.last.op = "send"
    /\ obs'.last.exc # "none"
ConnectFails == pc.at = "idle" /\ pc'.at = "box"
ConnectFailed == pc.at = "box" /\ pc'.at = "idle"
C12_FailureKeepsConnection ==
    [][/\ SendRaised => ConnState' = ConnState /\ tr' = tr
       /\ ConnectFails =>
              /\ ConnState.active = 0
              /\ ConnState'.running = ConnState.running
              /\ ~ConnState'.connected
              /\ \A k \in Ids : tr'[k] = tr[k]
       /\ ConnectFailed =>
              /\ ConnState'.active = 0
              /\ ConnState'.running = ConnState.running
              /\ tr' = tr]_vars

\* C12's case: a send on the connected transport has raised while the
\* receiver is inside a receive call.
C12_Witness ==
    /\ obs.last.op = "send"
    /\ obs.last.exc # "none"
    /\ comm_instance # 0
    /\ comm_instance = obs.last.k
    /\ IsConnected(tr[comm_instance])
    /\ comm_worker # 0
    /\ wk[comm_worker].pc = "recv"

\* C13: the data_received signals waiting for the presentation thread are
\* the frames receive_data has handed back and the slot has not yet seen, in
\* the order receive_data returned them, each once, each as str(data): no
\* frame is lost, duplicated or overtaken on its way to the slot.
DataOf(q) == SelectSeq(q, LAMBDA e : e.type = "data")
C13_FramesInOrder ==
    /\ Len(DataOf(queue)) = Len(obs.pending)
    /\ \A i \in 1..Len(obs.pending) :
           DataOf(queue)[i].val = StrOf(obs.pending[i])

\* C13's case: two different frames wait for the slot, the older first, and
\* the receiver is in its third receive call.
C13_Witness ==
    /\ Len(queue) = 2
    /\ queue[1].type = "data" /\ queue[2].type = "data"
    /\ queue[1].val # queue[2].val
    /\ obs.pending = <<Str(<<80>>), Str(<<81>>)>>
    /\ \E w \in Ids : wk[w].pc = "recv"

\* C14: in an iteration of run(), a receive_data whose library read timed
\* out with no data returns an empty result without raising: no signal is
\* emitted and, the flag still set, the loop goes on to the next receive
\* call; and whenever receive_data returns, data_received is emitted exactly
\* when the result is non-empty.
ReceiveReturns(w) == wk[w].pc = "recv" /\ wk'[w].pc # "recv"
C14_TimeoutIsNotAnError ==
    [][\A w \in Ids :
         /\ ReceiveReturns(w) =>
              /\ TimedOut(wk'[w].lib) =>
                     /\ wk'[w].pc = "sleep"
                     /\ wk'[w].data.s = <<>>
                     /\ queue' = queue
                     /\ obs'.errs = obs.errs
              /\ wk'[w].pc = "sleep" =>
                     /\ EmitsData(w) <=> wk'[w].data.s # <<>>
                     /\ ~EmitsData(w) => queue' = queue
         /\ (wk[w].pc = "sleep" /\ wk'[w].pc # "sleep") => wk'[w].pc = "check"
         /\ (wk[w].pc = "check" /\ wk'[w].pc # "check") =>
                wk'[w].pc = IF wk[w].flag THEN "recv" ELSE "exec"]_vars

\* C14's case: a CAN recv has timed out, nothing was emitted, and the
\* receiver, its flag set, is on its way to the next receive call.
C14_Witness ==
    \E w \in Ids :
        /\ wk[w].pc = "sleep"
        /\ tr[wk[w].comm].kind = "CAN"
        /\ wk[w].lib.res = "none"
        /\ wk[w].flag
        /\ queue = <<>>
        /\ obs.errs[w] = 0

----------------------------------------------------------------------------
\* Properties of construction, payloads and round trips, stated of TSpec.

\* C15: an I2C transport given a device address outside 0..127 does not
\* come into being: its constructor raises ConfigError, and no call is ever
\* made on the bus library for it.
BadParams(tt) == tt.kind = "I2C" /\ tt.addr \notin 0..127
C15_ConfigErrorAtConstruction ==
    BadParams(t) =>
        /\ Len(hist) = 1
        /\ hist[1].op = "init"
        /\ hist[1].exc = "ConfigError"
        /\ opens = 0

\* C16: a send_data that raises raises one of three kinds: ConnectionError
\* when the transport is not connected, TimeoutError when the library's
\* write timed out, IOError (serial.SerialException is one) for every other
\* failure, a payload of the wrong type included.
IsIOError(e) == e \in {"IOError", "SerialException"}
WriteTimedOut(rec) == rec.calls # <<>> /\ rec.wo = "timeout"
C16_SendErrorTaxonomy ==
    (Last.op = "send" /\ Last.exc # "none") =>
        \/ Last.exc = "ConnectionError" /\ ~IsConnected(Last.pre)
        \/ Last.exc = "TimeoutError" /\ IsConnected(Last.pre)
                                     /\ WriteTimedOut(Last)
        \/ IsIOError(Last.exc) /\ IsConnected(Last.pre) /\ ~WriteTimedOut(Last)

\* C17: a send_data of a str that returns normally has made exactly one
\* write call on the library, handing it the whole UTF-8 encoding of the
\* payload; so for each of the four variants, and with default arguments.
WriteFns == {"write", "send", "write_byte", "write_i2c_block_data"}
Writes(calls) == SelectSeq(calls, LAMBDA c : c.f \in WriteFns)
C17_SendWritesWholePayload ==
    (Last.op = "send" /\ Last.exc = "none" /\ Last.data.tag = "str") =>
        /\ Len(Writes(Last.calls)) = 1
        /\ Writes(Last.calls)[1].arg = UTF8(Last.data.s)

\* A UART send_data of one line (a str ending in a newline, no line
\* terminator before it) that returned normally, followed by a default
\* receive_data to which the loopback handed the line back.
LineEnds == {10, 13}
Body(s) == SubSeq(s, 1, Len(s) - 1)
OneLine(v) ==
    /\ v.tag = "str"
    /\ v.s # <<>>
    /\ v.s[Len(v.s)] = 10
    /\ \A i \in 1..(Len(v.s) - 1) : v.s[i] \notin LineEnds
LoopedBack ==
    /\ Len(hist) = 2
    /\ hist[1].op = "send"
    /\ hist[1].pre.kind = "UART"
    /\ hist[1].exc = "none"
    /\ OneLine(hist[1].data)
    /\ hist[2].op = "receive"
    /\ hist[2].exc = "none"
    /\ hist[2].ro \in EchoOutcomes("UART", hist[1].calls, 0, NoReg)
Trimmed(s) ==
    s = <<>> \/ (s[1] \notin Whitespace /\ s[Len(s)] \notin Whitespace)

\* C18: the UART round trip gives back exactly the payload with only the
\* line terminator removed.
C18_UartRoundTrip ==
    LoopedBack => hist[2].val = Str(Body(hist[1].data.s))

\* What does hold of the round trip: the payload comes back without its line
\* terminator when the line has no leading or trailing whitespace before the
\* terminator, "PID,1.0,0.1,0.01\n" for one (receive_data strips all of it).
UartRoundTripTrimmed ==
    (LoopedBack /\ Trimmed(Body(hist[1].data.s))) =>
        hist[2].val = Str(Body(hist[1].data.s))

\* Such a round trip: "\u00e9\n" sent, two UTF-8 bytes and the newline looped back,
\* "\u00e9" received.
UartRoundTripSeen ==
    /\ LoopedBack
    /\ hist[1].data = Str(<<233, 10>>)
    /\ hist[2].calls = <<Call("readline", TRUE, <<195, 169, 10>>)>>
    /\ hist[2].val = Str(<<233>>)

\* C19: an I2C send_data of a list of bytes B with a register makes one
\* block write of exactly B to that register at the device address, and a
\* receive_data of Len(B) bytes from the same register, the peer echoing the
\* write, makes one block read and returns exactly B; without a register
\* send_data and receive_data make single-byte accesses only.
RegisterWrite(rec) ==
    /\ rec.op = "send"
    /\ rec.pre.kind = "I2C"
    /\ rec.data.tag = "list"
    /\ rec.reg # NoReg
    /\ rec.exc = "none"
EchoedRead ==
    /\ Len(hist) = 2
    /\ RegisterWrite(hist[1])
    /\ hist[2].op = "receive"
    /\ hist[2].exc = "none"
    /\ hist[2].reg = hist[1].reg
    /\ hist[2].n = Len(hist[1].data.s)
    /\ hist[2].ro \in EchoOutcomes("I2C", hist[1].calls, hist[2].n, hist[2].reg)
----------------------------------------------------------------------------
\* Properties of the send handlers, stated of FrameSpec.

\* C20: send_pid_data / send_custom_data call send_data exactly when
\* comm_instance is there and is_connected(); otherwise they call no
\* transport and change nothing of the session; and when send_data raises,
\* the handler logs the error to the window.
SendHandled == obs'.last # obs.last /\ obs'.last.op = "send"
CanSend == IF comm_instance = 0 THEN FALSE ELSE IsConnected(tr[comm_instance])
C20_SendOnlyWhenConnected ==
    [][SendHandled =>
          /\ obs'.last.k # 0 <=> CanSend
          /\ obs'.last.k # 0 => obs'.last.k = comm_instance
          /\ obs'.last.k = 0 =>
                 /\ obs'.last.exc = "none"
                 /\ UNCHANGED <<comm_instance, comm_worker, worker_thread, tr,
                                wk, queue, pc, ui>>
          /\ obs'.last.exc # "none" => obs'.last.log = "Error sending"]_vars

\* C20's case: a send on a connected UART timed out and the handler logged
\* the error.
C20_Witness ==
    /\ obs.last.op = "send"
    /\ obs.last.k # 0
    /\ tr[obs.last.k].kind = "UART"
    /\ obs.last.exc = "TimeoutError"
    /\ obs.last.log = "Error sending"

----------------------------------------------------------------------------
\* Properties of the serial pair and of connect(), stated of TSpec.

\* The call of record rec made again on the other serial variant, from the
\* same object state, with the same arguments and the same behaviour of the
\* serial library.
Twin(tt) == [tt EXCEPT !.kind = IF @ = "UART" THEN "RS485" ELSE "UART"]
OnTwin(rec) ==
    IF rec.op = "connect"
    THEN Connect(Twin(rec.pre), [open |-> ~LibraryFailed(rec), probe |-> TRUE])
    ELSE IF rec.op = "disconnect" THEN Disconnect(Twin(rec.pre))
    ELSE IF rec.op = "send" THEN Send(Twin(rec.pre), rec.data, rec.wo)
    ELSE Receive(Twin(rec.pre), rec.ro)

\* C21: UART and RS485 behave alike: whatever call is made on one of them,
\* the same call on the other, in the same state and with the serial library
\* behaving the same, gives the same result, the same exception, the same
\* state afterwards and makes the same calls on the serial handle.
C21_Rs485EqualsUart ==
    (Last.pre.kind \in Serial /\ Last.op # "init") =>
        /\ OnTwin(Last).val = Last.val
        /\ OnTwin(Last).exc = Last.exc
        /\ OnTwin(Last).t = Twin(t)
        /\ IsConnected(OnTwin(Last).t) = IsConnected(t)
        /\ OnTwin(Last).calls = Last.calls

\* What does hold of the pair: the same result, exception and state, and the
\* same calls but for the flush() that follows a successful RS485 write.
NoFlush(calls) == SelectSeq(calls, LAMBDA c : c.f # "flush")
SerialPairBarFlush ==
    (Last.pre.kind \in Serial /\ Last.op # "init") =>
        /\ OnTwin(Last).val = Last.val
        /\ OnTwin(Last).exc = Last.exc
        /\ OnTwin(Last).t = Twin(t)
        /\ NoFlush(OnTwin(Last).calls) = NoFlush(Last.calls)

----------------------------------------------------------------------------
\* The receiver's life cycle, stated of Spec.

\* the receiver's loop is over for good: stop() has cleared its flag or the
\* loop has ended on a receive error
Over(w) == w \in obs.stopped \/ ~wk[w].flag \/ obs.errs[w] > 0

\* a successful connect_device makes a receiver and a thread that did not
\* exist before, neither started yet, and leaves the earlier ones alone
FreshReceiver ==
    (comm_worker' # comm_worker /\ comm_worker' # 0) =>
        /\ comm_worker' \notin Ids /\ worker_thread' = comm_worker'
        /\ wk'[comm_worker'] = NewWorker(comm_instance')
        /\ \A w \in Ids : wk'[w] = wk[w]

\* C22: a receiver goes Created -> Running -> Stopped and never back: once
\* stop() has cleared its flag or its loop has ended on an error, the flag
\* is never set to running again and the receiver begins no further
\* receive_data() call; a successful connect_device makes a fresh receiver
\* and thread.
C22_ReceiverNeverRestarts ==
    [][/\ \A w \in Ids :
            /\ wk[w] # NoWorker /\ Over(w) =>
                 /\ wk[w].flag = FALSE => wk'[w].flag = FALSE
                 /\ wk'[w].pc = "recv" => wk[w].pc = "recv"
       /\ FreshReceiver]_vars

\* The part that holds: receivers are never reused, and a receiver whose
\* loop ended on an error makes no further receive call.
ReceiverNotReused ==
    [][/\ \A w \in Ids :
            wk[w] # NoWorker /\ obs.errs[w] > 0 => wk'[w].pc # "recv"
       /\ FreshReceiver]_vars

----------------------------------------------------------------------------
\* connect() and is_connected(), stated of TSpec.

\* C23: for each of the four transports and after any earlier connect and
\* disconnect calls, a failed connect among them, a connect() that returns
\* without raising leaves is_connected() true.
C23_ConnectedAfterConnect ==
    (Last.op = "connect" /\ Last.exc = "none") => IsConnected(t)

\* It holds of the three transports that keep no handle after a failed
\* connect.
ConnectedAfterConnectBarI2C ==
    (Last.op = "connect" /\ Last.exc = "none" /\ t.kind # "I2C") =>
        IsConnected(t)

====
